---------------------------- MODULE Spec2Model ----------------------------
(***************************************************************************)
(* A model of the Strategix sensitivity-analysis backend:                  *)
(*   src/backend/game_logic.py      the scoring / sensitivity engine       *)
(*   src/backend/gemini_service.py  the narrative-report collaborator      *)
(*   src/backend/main.py            the /analyze request handler           *)
(*                                                                         *)
(* One behaviour of the model is one /analyze request: Init is the request *)
(* as received, and the actions are the steps of solve_game, of            *)
(* generate_advisory and of the handler, in program order.                 *)
(*                                                                         *)
(* Numbers.  The engine computes in binary floating point; the model       *)
(* computes the same quantities exactly, in integers:                      *)
(*   - a weight is a numerator over the WeightSet's common denominator     *)
(*     `scale` (the defaults are hundredths: 0.30 is 30 over 100);         *)
(*   - a utility score is a whole number of hundredths (7.85 is 785);      *)
(*   - round(x, k) is the integer nearest to the exact quotient.  Where    *)
(*     the exact quotient can lie half-way between two integers (a         *)
(*     renormalised utility, the stability index) the float lies a         *)
(*     rounding error to one side of the half, and the model allows both   *)
(*     neighbours (RoundNearest); elsewhere it is RoundHalfEven;           *)
(*   - np.exp is bracketed between a lower and an upper fixed-point        *)
(*     bound of seven decimal digits, and a market share is every value    *)
(*     that rounding can give between them.                                *)
(* Row labels are distinct (they are the keys of every result map), so a   *)
(* score map is the sequence of scores in row order.                       *)
(***************************************************************************)
EXTENDS Integers, Sequences, FiniteSets, TLC

(***************************************************************************)
(* Bounds of the model.                                                    *)
(***************************************************************************)
MaxRows == 3

\* the most tipping points handed to assess_market_stability on its own
MaxTipping == 12

(***************************************************************************)
(* Arithmetic helpers.                                                     *)
(***************************************************************************)
Abs(x) == IF x < 0 THEN -x ELSE x

Min2(a, b) == IF a <= b THEN a ELSE b

Max2(a, b) == IF a >= b THEN a ELSE b

\* round(): the integer nearest to n/d (d # 0), a tie going to the even one.
RoundHalfEven(n, d) ==
    LET nn == IF d < 0 THEN -n ELSE n
        dd == Abs(d)
        q  == nn \div dd
        r  == nn - q * dd
    IN  IF 2 * r < dd THEN q
        ELSE IF 2 * r > dd THEN q + 1
        ELSE IF q % 2 = 0 THEN q ELSE q + 1

\* round() of a binary floating-point value whose exact counterpart is n/d: the
\* nearest integer, and either neighbour when n/d is exactly half-way, because
\* the rounding error of the float decides on which side of the half it falls.
RoundNearest(n, d) ==
    LET nn == IF d < 0 THEN -n ELSE n
        dd == Abs(d)
        q  == nn \div dd
        r  == nn - q * dd
    IN  IF 2 * r < dd THEN {q}
        ELSE IF 2 * r > dd THEN {q + 1}
        ELSE {q, q + 1}

RECURSIVE Choices(_, _)
\* the sequences of length n whose i-th element is one of values[i]
Choices(values, n) ==
    IF n = 0 THEN {<<>>}
    ELSE {Append(s, v) : s \in Choices(values, n - 1), v \in values[n]}

RECURSIVE SumSeq(_)
SumSeq(s) == IF s = <<>> THEN 0 ELSE s[1] + SumSeq(Tail(s))

RECURSIVE FlattenSeq(_)
FlattenSeq(ss) == IF ss = <<>> THEN <<>> ELSE ss[1] \o FlattenSeq(Tail(ss))

RECURSIVE IndexOf(_, _, _)
\* list.index(x) from position i on; 0 stands for ValueError.
IndexOf(s, x, i) ==
    IF i > Len(s) THEN 0
    ELSE IF s[i] = x THEN i
    ELSE IndexOf(s, x, i + 1)

\* Optional[...] = None
None == "<None>"

(***************************************************************************)
(* WeightSet (game_logic.py 71-76, main.py 31-36).                         *)
(***************************************************************************)
Criteria == <<"fuel", "safety", "tech", "service", "price">>

CriteriaSet == {Criteria[j] : j \in 1..Len(Criteria)}

\* the field defaults of WeightSet, in hundredths
DefaultWeight == [fuel |-> 30, safety |-> 25, tech |-> 20, service |-> 15, price |-> 10]

WeightSet(fuel, safety, tech, service, price) ==
    [fuel |-> fuel, safety |-> safety, tech |-> tech, service |-> service,
     price |-> price, scale |-> 100]

\* faulty variant: fuel and safety taken in the wrong order
weight_values_swapped(weights) ==
    <<weights.safety, weights.fuel, weights.tech, weights.service, weights.price>>

\* [weights.fuel, weights.safety, weights.tech, weights.service, weights.price]
weight_values(weights) == [j \in 1..Len(Criteria) |-> weights[Criteria[j]]]

\* test_weights.fuel + ... + test_weights.price, as a numerator over scale
total_weight(weights) == SumSeq(weight_values(weights))

(***************************************************************************)
(* The request: MatrixData (game_logic.py 10-19, main.py 38-47).           *)
(* entityAName and entityBName only choose the segment and competitors     *)
(* texts of the product context and are left out.                          *)
(***************************************************************************)
RowPool == {<<8, 9, 7, 8, 6>>, <<7, 8, 9, 7, 7>>, <<9, 6, 8, 6, 9>>}

LabelPool == <<"A", "B", "C", "D", "E", "F">>

ColLabels == <<"Fuel", "Safety", "Tech", "Service", "Price">>

\* str.lower() on the criterion labels
Lower(label) ==
    CASE label = "Fuel" -> "fuel"
      [] label = "Safety" -> "safety"
      [] label = "Tech" -> "tech"
      [] label = "Service" -> "service"
      [] label = "Price" -> "price"
      [] OTHER -> label

\* the payoff matrices of the model: 1..MaxRows rows drawn from RowPool
Matrices == UNION {[1..n -> RowPool] : n \in 1..MaxRows}

\* the weights field: absent, a dict (any subset of the keys), or a WeightSet
NoWeights == [kind |-> "none", w |-> [c \in {} |-> 0]]

WeightOverrides ==
    { NoWeights,
      [kind |-> "dict", w |-> [fuel |-> 0, safety |-> 0, tech |-> 0, service |-> 50, price |-> 50]],
      [kind |-> "dict", w |-> [fuel |-> 50]],
      [kind |-> "obj",  w |-> [fuel |-> -5, safety |-> 0, tech |-> 0, service |-> 0, price |-> 0]] }

\* the yourProduct field: absent, a row label (when there is a second row), unknown
YourProducts == {None, "B", "Z"}

Shapes == {"ok", "rows_field", "cols_short", "cols_long", "row_missing", "row_jagged", "labels_short"}

MatrixData(payoffs, shape, yourProduct, weights) ==
    LET n == Len(payoffs)
    IN  [rows       |-> IF shape = "rows_field" THEN n + 1 ELSE n,
         cols       |-> CASE shape = "cols_short" -> 4
                          [] shape = "cols_long" -> 6
                          [] OTHER -> 5,
         rowLabels  |-> SubSeq(LabelPool, 1, n),
         colLabels  |-> IF shape = "labels_short" THEN SubSeq(ColLabels, 1, 4) ELSE ColLabels,
         payoffs    |-> CASE shape = "row_missing" -> SubSeq(payoffs, 1, n - 1)
                          [] shape = "row_jagged" ->
                               [payoffs EXCEPT ![n] = SubSeq(payoffs[n], 1, 4)]
                          [] OTHER -> payoffs,
         yourProduct |-> yourProduct,
         weights    |-> weights]

\* Well-formed requests with every override and focal label; each malformed
\* shape with the default weights and no focal label.
Requests ==
    {MatrixData(p, "ok", y, NoWeights) : p \in Matrices, y \in YourProducts}
    \cup {MatrixData(p, "ok", None, w) : p \in Matrices, w \in WeightOverrides}
    \cup {MatrixData(p, s, None, NoWeights) : p \in Matrices, s \in Shapes \ {"ok"}}

WellFormed(d) ==
    /\ Len(d.payoffs) = Len(d.rowLabels)
    /\ Len(d.payoffs) = d.rows
    /\ \A i \in 1..Len(d.payoffs) : Len(d.payoffs[i]) = Len(d.colLabels)
                                       /\ Len(d.payoffs[i]) = d.cols
    /\ d.cols = Len(Criteria)

(***************************************************************************)
(* Utility Scorer and leader (game_logic.py 367-378, 504).                 *)
(***************************************************************************)
\* data.payoffs[i][j] or weight_values[j] out of range: IndexError
UtilityRaises(d) ==
    \E i \in 1..Len(d.rowLabels) : \E j \in 1..d.cols :
        \/ i > Len(d.payoffs)
        \/ j > Len(d.payoffs[i])
        \/ j > Len(Criteria)

\* the values one row's utility can take, in hundredths:
\* round(sum_j payoffs[i][j] * weight_values[j], 2)
utility(d, weights, i) ==
    RoundNearest(
        100 * SumSeq([j \in 1..d.cols |-> d.payoffs[i][j] * weight_values(weights)[j]]),
        weights.scale)

\* the score maps the call can return: scores[car], in row order
calculate_utility_scores(d, weights) ==
    Choices([i \in 1..Len(d.rowLabels) |-> utility(d, weights, i)], Len(d.rowLabels))

\* faulty variant: the last row with the top score
ArgMaxLast(scores) ==
    CHOOSE i \in 1..Len(scores) :
        /\ \A k \in 1..Len(scores) : scores[k] <= scores[i]
        /\ \A k \in (i + 1)..Len(scores) : scores[k] < scores[i]

\* max(scores.keys(), key=lambda x: scores[x]): the first row with the top score
ArgMax(scores) ==
    CHOOSE i \in 1..Len(scores) :
        /\ \A k \in 1..Len(scores) : scores[k] <= scores[i]
        /\ \A k \in 1..(i - 1) : scores[k] < scores[i]

Leader(d, scores) == d.rowLabels[ArgMax(scores)]

\* sorted(scores.items(), key=lambda x: x[1], reverse=True), as row indices:
\* descending by score, equal scores staying in row order (the sort is stable)
RECURSIVE SortedFrom(_, _)
SortedFrom(scores, rest) ==
    IF rest = {} THEN <<>>
    ELSE LET i == CHOOSE r \in rest :
                      \A k \in rest : \/ scores[k] < scores[r]
                                       \/ (scores[k] = scores[r] /\ r <= k)
         IN  <<i>> \o SortedFrom(scores, rest \ {i})

sorted_products(scores) == SortedFrom(scores, 1..Len(scores))

\* sorted(scores.values(), reverse=True)
SortedDesc(scores) ==
    [k \in 1..Len(scores) |-> scores[sorted_products(scores)[k]]]

(***************************************************************************)
(* Sensitivity Explorer: the perturb-and-renormalise trial shared by       *)
(* find_tipping_points (380-425), calculate_criteria_sensitivity (169-207) *)
(* and generate_scenario_analysis (209-253).                               *)
(***************************************************************************)
\* the weight_change grid of find_tipping_points, in hundredths
TippingDeltas == <<-15, -10, -5, 5, 10, 15>>

\* the weight_change grid of calculate_criteria_sensitivity
SensitivityDeltas == <<-20, -15, -10, -5, 5, 10, 15, 20>>

scenario_configs ==
    << [scenarioName |-> "Safety Focus (+20%)",      criterion |-> "safety",  boost |-> 20],
       [scenarioName |-> "Tech Innovation (+25%)",   criterion |-> "tech",    boost |-> 25],
       [scenarioName |-> "Price Sensitivity (+15%)", criterion |-> "price",   boost |-> 15],
       [scenarioName |-> "Fuel Economy (+18%)",      criterion |-> "fuel",    boost |-> 18],
       [scenarioName |-> "Service Quality (+12%)",   criterion |-> "service", boost |-> 12] >>

\* new_weight = max(0.01, current_weight + weight_change)
TippingNewWeight(current_weight, weight_change) ==
    Max2(1, current_weight + weight_change)

\* new_weight = max(0.01, min(0.50, current_weight + weight_change))
SensitivityNewWeight(current_weight, weight_change) ==
    Max2(1, Min2(50, current_weight + weight_change))

\* new_weight = min(0.50, current_weight + boost)
ScenarioNewWeight(current_weight, boost) ==
    Min2(50, current_weight + boost)

\* faulty variant: the new weight lands on every criterion of the copy
PerturbAll(weights, criterion, new_weight) ==
    [c \in DOMAIN weights |-> IF c = "scale" THEN weights[c] ELSE new_weight]

\* test_weights = WeightSet(**base_weights.model_dump()); setattr(test_weights, criterion, new_weight)
Perturb(weights, criterion, new_weight) ==
    [weights EXCEPT ![criterion] = new_weight]

\* faulty variant: the perturbed weights are used without renormalising
RenormalizeSkipped(weights) == weights

\* test_weights.<c> /= total_weight, for the five fields: c/scale over total/scale
Renormalize(weights) ==
    [weights EXCEPT !.scale = total_weight(weights)]

\* what one trial can compute; total_weight = 0 is the ZeroDivisionError of "/="
Trial(search, d, weights, criterion, weight_change, new_weight) ==
    LET perturbed == Perturb(weights, criterion, new_weight)
        total     == total_weight(perturbed)
        test      == Renormalize(perturbed)
    IN  {[search        |-> search,
          criterion     |-> criterion,
          weight_change |-> weight_change,
          new_weight    |-> new_weight,
          total_weight  |-> total,
          test_weights  |-> test,
          new_scores    |-> scores,
          new_leader    |-> IF total = 0 THEN None ELSE Leader(d, scores)] :
            scores \in IF total = 0 THEN {<<>>} ELSE calculate_utility_scores(d, test)}

NoTrial ==
    [search |-> "none", criterion |-> None, weight_change |-> 0, new_weight |-> 0,
     total_weight |-> 0, test_weights |-> WeightSet(0, 0, 0, 0, 0), new_scores |-> <<>>,
     new_leader |-> None]

\* the record appended at 415-423 (marketImpact is a text built from criterion)
TippingPoint(d, scores, t, current_leader) ==
    LET new_idx     == IndexOf(d.rowLabels, t.new_leader, 1)
        cur_idx     == IndexOf(d.rowLabels, current_leader, 1)
    IN  [criterion      |-> t.criterion,
         weightChange   |-> t.weight_change,
         newWeight      |-> RoundHalfEven(1000 * t.new_weight, 100),
         previousLeader |-> current_leader,
         newLeader      |-> t.new_leader,
         scoreChange    |-> RoundHalfEven(100 * (t.new_scores[new_idx] - scores[cur_idx]), 100)]

(***************************************************************************)
(* Market Share Estimator (game_logic.py 462-472).                         *)
(* np.exp is bracketed in fixed point with seven decimal digits: ExpNeg is *)
(* a lower bound and ExpNegHigh an upper bound of 10^7 * exp(-x / 100).    *)
(* A share is every tenth of a percent that rounding can give for a value  *)
(* between the two bounds, so the float result is always among the values  *)
(* of the model.                                                           *)
(***************************************************************************)
\* (a * b) \div 10^7 for a, b in 0..10^7, without leaving 32 bits
MulFixed(a, b) ==
    LET a1 == a \div 10000
        a0 == a % 10000
        b1 == b \div 10000
        b0 == b % 10000
    IN  a1 * b1 * 10 + ((a1 * b0 + a0 * b1) + (a0 * b0) \div 10000) \div 1000

RECURSIVE PowFixed(_, _)
PowFixed(b, k) == IF k = 0 THEN 10000000 ELSE MulFixed(b, PowFixed(b, k - 1))

\* lower bound of 10^7 * exp(-x / 100) for x >= 0 hundredths, from the
\* truncated values of exp(-1), exp(-0.1), exp(-0.01)
ExpNeg(x) ==
    LET a == PowFixed(3678794, x \div 100)
        b == PowFixed(9048374, (x % 100) \div 10)
        c == PowFixed(9900498, x % 10)
    IN  MulFixed(MulFixed(a, b), c)

\* upper bound: every factor and every product loses less than one unit
ExpNegHigh(x) ==
    LET factors == x \div 100 + (x % 100) \div 10 + (x % 10)
        high    == ExpNeg(x) + 2 * factors + 2
    IN  IF x = 0 \/ high > 10000000 THEN 10000000 ELSE high

\* the integers nearest to 1000 * num / den (both at a tie), by long division
RoundPerMille(num, den) ==
    LET q1 == (10 * num) \div den
        r1 == (10 * num) % den
        q2 == (10 * r1) \div den
        r2 == (10 * r1) % den
        q3 == (10 * r2) \div den
        r3 == (10 * r2) % den
        q  == 100 * q1 + 10 * q2 + q3
    IN  IF 2 * r3 < den THEN {q}
        ELSE IF 2 * r3 > den THEN {q + 1}
        ELSE {q, q + 1}

\* faulty variant: exp_score * 100 without the division by total_exp
share_of_leader(low, high, rest_low, rest_high) ==
    LET least == CHOOSE v \in RoundPerMille(low, 10000000) :
                     \A w \in RoundPerMille(low, 10000000) : v <= w
        most  == CHOOSE v \in RoundPerMille(high, 10000000) :
                     \A w \in RoundPerMille(high, 10000000) : v >= w
    IN  least..most

\* round(exp_score / total_exp * 100, 1) in tenths of a percent, for exp_score
\* in low..high and the other exponentials summing to rest_low..rest_high
share_of_total(low, high, rest_low, rest_high) ==
    LET least == CHOOSE v \in RoundPerMille(low, low + rest_high) :
                     \A w \in RoundPerMille(low, low + rest_high) : v <= w
        most  == CHOOSE v \in RoundPerMille(high, high + rest_low) :
                     \A w \in RoundPerMille(high, high + rest_low) : v >= w
    IN  least..most

\* the share maps the estimator can return, in tenths of a percent
calculate_market_share(scores) ==
    LET max_score == SortedDesc(scores)[1]
        lows      == [i \in 1..Len(scores) |-> ExpNeg(max_score - scores[i])]
        highs     == [i \in 1..Len(scores) |-> ExpNegHigh(max_score - scores[i])]
    IN  Choices([i \in 1..Len(scores) |->
                     share_of_total(lows[i], highs[i],
                                    SumSeq(lows) - lows[i], SumSeq(highs) - highs[i])],
                Len(scores))

(***************************************************************************)
(* Competitive Gap Analyzer (game_logic.py 427-439): gaps[car1][car2] in   *)
(* hundredths, for car1 # car2.                                            *)
(***************************************************************************)
\* faulty variant: the size of the gap, without its sign
calculate_competitive_gaps_unsigned(d) ==
    [i \in 1..Len(d.rowLabels) |->
        [j \in (1..Len(d.rowLabels)) \ {i} |->
            Abs(RoundHalfEven(
                    100 * SumSeq([k \in 1..d.cols |-> d.payoffs[i][k] - d.payoffs[j][k]]),
                    d.cols))]]

calculate_competitive_gaps(d) ==
    [i \in 1..Len(d.rowLabels) |->
        [j \in (1..Len(d.rowLabels)) \ {i} |->
            RoundHalfEven(
                100 * SumSeq([k \in 1..d.cols |-> d.payoffs[i][k] - d.payoffs[j][k]]),
                d.cols)]]

(***************************************************************************)
(* Stability & Confidence Assessor (game_logic.py 441-460, 130-167).       *)
(***************************************************************************)
\* faulty variant: no floor at 0.1
vulnerability_factor_unfloored(leadership_changes) == 10 - leadership_changes

\* vulnerability_factor = max(0.1, 1.0 - leadership_changes * 0.1), in tenths
vulnerability_factor(leadership_changes) == Max2(1, 10 - leadership_changes)

\* faulty variant: the vulnerability factor grows with the leadership changes
assess_market_stability_growing(scores, leadership_changes) ==
    IF leadership_changes = 0 THEN {1000}
    ELSE LET sorted_scores == SortedDesc(scores)
             stab == IF Len(sorted_scores) >= 2
                     THEN [num |-> Min2(1000, sorted_scores[1] - sorted_scores[2]), den |-> 1000]
                     ELSE [num |-> 1, den |-> 2]
         IN  RoundNearest(1000 * stab.num * Min2(10, leadership_changes), stab.den * 10)

\* the values the stability index can take, in thousandths, for a score map and
\* a number of tipping points
assess_market_stability(scores, leadership_changes) ==
    IF leadership_changes = 0 THEN {1000}
    ELSE LET sorted_scores == SortedDesc(scores)
             \* stability as a fraction: min(1.0, leader_margin / 10.0), or 0.5
             stab == IF Len(sorted_scores) >= 2
                     THEN [num |-> Min2(1000, sorted_scores[1] - sorted_scores[2]), den |-> 1000]
                     ELSE [num |-> 1, den |-> 2]
         IN  RoundNearest(1000 * stab.num * vulnerability_factor(leadership_changes),
                          stab.den * 10)

\* min(100, 50 + margin * 10) in tenths, or 75 with fewer than two scores
prediction_accuracy(scores) ==
    IF Len(scores) >= 2
    THEN Min2(1000, 500 + (SortedDesc(scores)[1] - SortedDesc(scores)[2]))
    ELSE 750

\* every metric in tenths; the overall score blends the unrounded metrics
calculate_confidence_metrics(d, scores, n_tipping) ==
    LET xs   == FlattenSeq(d.payoffs)
        n    == Len(xs)
        \* np.var(xs) = v / (n * n)
        v    == n * SumSeq([k \in 1..n |-> xs[k] * xs[k]]) - SumSeq(xs) * SumSeq(xs)
        \* data_quality = dq / (n * n)
        dq   == Min2(100 * n * n, 60 * n * n + 4 * v)
        mr   == Min2(100, 50 + d.rows * d.cols * 2)
        ms   == Max2(20, 100 - n_tipping * 15)
        pa   == prediction_accuracy(scores)
    IN  [overallScore       |-> RoundHalfEven(10 * (10 * dq + 8 * n * n * mr + 12 * n * n * ms + n * n * pa),
                                              40 * n * n),
         dataQuality        |-> RoundHalfEven(10 * dq, n * n),
         modelReliability   |-> 10 * mr,
         marketStability    |-> 10 * ms,
         predictionAccuracy |-> pa]

(***************************************************************************)
(* Focal Insight Generator (game_logic.py 255-365) and product context     *)
(* (78-128).                                                               *)
(***************************************************************************)
\* Python truthiness of an Optional[str]
Truthy(str) == str # None /\ str # ""

\* a or b
OrElse(a, b) == IF Truthy(a) THEN a ELSE b

\* the primary_product of detect_product_context: every branch returns
\* ProductContext(primary_product = primary_product or <a default>)
detect_product_context(product) ==
    LET primary_product == IF Truthy(product) THEN product ELSE "Main Product"
    IN  [primary_product |-> primary_product]

\* try: rowLabels.index(product) except ValueError: 0     (1-based here)
FocalIndex(d, product) ==
    IF IndexOf(d.rowLabels, product, 1) = 0 THEN 1 ELSE IndexOf(d.rowLabels, product, 1)

\* the label the diagnostics are computed for
FocalProduct(d, product) == d.rowLabels[FocalIndex(d, product)]

\* max(competitor_scores) if competitor_scores else 0
max_competitor_score(d, primary_idx, j) ==
    LET competitors == (1..Len(d.rowLabels)) \ {primary_idx}
    IN  IF competitors = {} THEN 0
        ELSE CHOOSE m \in {d.payoffs[i][j] : i \in competitors} :
                 \A i \in competitors : d.payoffs[i][j] <= m

\* faulty variant: the competitors are not looked at
IsStrengthAlone(primary_score, best) == primary_score >= 8

IsStrength(primary_score, best) == primary_score >= 8 /\ primary_score >= best

IsWeakness(primary_score, best) ==
    /\ ~IsStrength(primary_score, best)
    /\ primary_score < best
    /\ best - primary_score >= 1

\* faulty variant: the score threshold is 9
IsInvestmentBelowNine(primary_score, best) == primary_score < 9 \/ best - primary_score >= 2

IsInvestment(primary_score, best) == primary_score < 7 \/ best - primary_score >= 2

\* faulty variant: High from a gap of 2
InvestmentPriorityEager(primary_score, best) ==
    LET gap == Max2(0, best - primary_score)
    IN  IF gap >= 2 THEN "High" ELSE IF gap >= 1 THEN "Medium" ELSE "Low"

InvestmentPriority(primary_score, best) ==
    LET gap == Max2(0, best - primary_score)
    IN  IF gap >= 3 THEN "High" ELSE IF gap >= 2 THEN "Medium" ELSE "Low"

\* the per-criterion findings of the loop at 272-311, one entry per column label
Findings(d, product) ==
    LET primary_idx == FocalIndex(d, OrElse(product, d.rowLabels[1]))
    IN  [j \in 1..Len(d.colLabels) |->
            LET primary_score == d.payoffs[primary_idx][j]
                best          == max_competitor_score(d, primary_idx, j)
            IN  [criterion      |-> Lower(d.colLabels[j]),
                 score          |-> primary_score,
                 competitorBest |-> best,
                 gap            |-> best - primary_score,
                 targetScore    |-> Min2(10, best + 1),
                 priority       |-> InvestmentPriority(primary_score, best)]]

identify_strengths(d, product) ==
    LET found == SelectSeq(Findings(d, product), LAMBDA f : IsStrength(f.score, f.competitorBest))
    IN  [k \in 1..Len(found) |-> [criterion |-> found[k].criterion, score |-> found[k].score]]

identify_weaknesses(d, product) ==
    LET found == SelectSeq(Findings(d, product), LAMBDA f : IsWeakness(f.score, f.competitorBest))
    IN  [k \in 1..Len(found) |->
            [criterion |-> found[k].criterion, score |-> found[k].score,
             competitorBest |-> found[k].competitorBest, gap |-> found[k].gap]]

identify_investments(d, product) ==
    LET found == SelectSeq(Findings(d, product), LAMBDA f : IsInvestment(f.score, f.competitorBest))
    IN  [k \in 1..Len(found) |->
            [criterion |-> found[k].criterion, currentScore |-> found[k].score,
             targetScore |-> found[k].targetScore, priority |-> found[k].priority]]

\* faulty variant: the third rank is a challenger too
PositionWide(your_rank) ==
    IF your_rank = 1 THEN "Market Leader"
    ELSE IF your_rank <= 3 THEN "Strong Challenger"
    ELSE "Competitive Underdog"

Position(your_rank) ==
    IF your_rank = 1 THEN "Market Leader"
    ELSE IF your_rank = 2 THEN "Strong Challenger"
    ELSE "Competitive Underdog"

\* names in row order whose score satisfies Cmp against your_score
NamesWhere(d, scores, your_idx, Cmp(_, _)) ==
    LET rows == SelectSeq([i \in 1..Len(scores) |-> i],
                          LAMBDA i : i # your_idx /\ Cmp(scores[i], scores[your_idx]))
    IN  [k \in 1..Len(rows) |-> d.rowLabels[rows[k]]]

analyze_your_product(d, scores, shares, product) ==
    LET your_idx     == FocalIndex(d, product)
        name         == d.rowLabels[your_idx]
        sorted       == sorted_products(scores)
        your_rank    == IndexOf(sorted, your_idx, 1)
        leader       == d.rowLabels[sorted[1]]
        leader_score == scores[sorted[1]]
    IN  [yourProduct   |-> name,
         yourScore     |-> scores[your_idx],
         yourShare     |-> shares[your_idx],
         yourRank      |-> your_rank,
         totalProducts |-> Len(d.rowLabels),
         position      |-> Position(your_rank),
         marketLeader  |-> leader,
         gapToLeader   |-> IF leader # name THEN leader_score - scores[your_idx] ELSE 0,
         aheadOf       |-> NamesWhere(d, scores, your_idx, LAMBDA s, mine : s < mine),
         behind        |-> NamesWhere(d, scores, your_idx, LAMBDA s, mine : s > mine),
         isLeader      |-> your_rank = 1]

(***************************************************************************)
(* Risk assessment (game_logic.py 539-555).                                *)
(***************************************************************************)
\* sorted(base_scores.values(), reverse=True)[1] with a single score: IndexError
RiskRaises(scores) == Len(scores) < 2

\* leader_score - second_best_score < 2.0.  The difference of two floats that
\* are exactly 2.00 apart can come out just below 2.0 (9.45 - 7.45), so at that
\* distance the test can go either way.
narrow_advantage(leader_score, second_best_score) ==
    IF leader_score - second_best_score < 200 THEN {TRUE}
    ELSE IF leader_score - second_best_score > 200 THEN {FALSE}
    ELSE BOOLEAN

\* the lists of factors lines 540-549 can collect
risk_factors(scores, leader_idx, stability, n_tipping) ==
    {(IF stability < 700 THEN <<"Market position vulnerable to weight shifts">> ELSE <<>>)
     \o (IF n_tipping > 5 THEN <<"Multiple sensitivity points detected">> ELSE <<>>)
     \o (IF narrow THEN <<"Narrow competitive advantage">> ELSE <<>>) :
        narrow \in narrow_advantage(scores[leader_idx], SortedDesc(scores)[2])}

\* faulty variant: High only from three factors
RiskAssessmentLenient(factors) ==
    [level          |-> IF Len(factors) >= 3 THEN "High"
                        ELSE IF Len(factors) >= 1 THEN "Medium" ELSE "Low",
     factors        |-> factors,
     recommendation |-> IF Len(factors) > 0 THEN "Focus on strengthening weak criteria"
                        ELSE "Maintain current strategy"]

RiskAssessment(factors) ==
    [level          |-> IF Len(factors) >= 2 THEN "High"
                        ELSE IF Len(factors) = 1 THEN "Medium" ELSE "Low",
     factors        |-> factors,
     recommendation |-> IF Len(factors) > 0 THEN "Focus on strengthening weak criteria"
                        ELSE "Maintain current strategy"]

(***************************************************************************)
(* The narrative collaborator (gemini_service.py 34-193): what can raise.  *)
(***************************************************************************)
\* user_product = data.yourProduct or data.rowLabels[0]
user_product(d) == OrElse(d.yourProduct, d.rowLabels[1])

user_scores(d) == d.payoffs[FocalIndex(d, user_product(d))]

\* building the prompt (65-147): colLabels[i] for a weak or strong score (75-76),
\* user_scores[i] for every column label (83), and the rank lookup
\* sorted(baseScores.items()).index((user_product, score)) of line 130
PromptRaises(d, optimalChoice) ==
    \/ \E i \in 1..Len(user_scores(d)) :
           (user_scores(d)[i] <= 6 \/ user_scores(d)[i] >= 8) /\ i > Len(d.colLabels)
    \/ Len(d.colLabels) > Len(user_scores(d))
    \/ (optimalChoice # user_product(d) /\ IndexOf(d.rowLabels, user_product(d), 1) = 0)

\* user_scores.index(min(user_scores)), 1-based
ArgMin(xs) ==
    CHOOSE i \in 1..Len(xs) :
        /\ \A k \in 1..Len(xs) : xs[i] <= xs[k]
        /\ \A k \in 1..(i - 1) : xs[k] > xs[i]

\* the templated fallback (162-193): colLabels[user_scores.index(min / max)]
FallbackRaises(d) ==
    \/ ArgMin(user_scores(d)) > Len(d.colLabels)
    \/ ArgMax(user_scores(d)) > Len(d.colLabels)

(***************************************************************************)
(* State.  The variables are the locals of solve_game (474-573), the       *)
(* locals of the running search, and the handler's outcome (main.py 68-85).*)
(***************************************************************************)
VARIABLES
    data,                  \* the request's MatrixData
    pc,                    \* the step the request is at
    error,                 \* the exception raised, or None
    base_weights, base_scores, optimal_choice, market_share,
    tipping_points, competitive_gaps, stability_index,
    your_product, product_context, confidence_metrics,
    criteria_sensitivity, scenario_analysis,
    strengths, weaknesses, investment_areas,
    your_product_analysis, risk_assessment,
    current_leader,        \* the running search's baseline leader
    ci, di,                \* the running search's criterion and delta positions
    changes_count,         \* calculate_criteria_sensitivity's flip counter
    trial,                 \* the locals of the latest trial
    results,               \* what solve_game returned
    advisory,              \* what generate_advisory returned
    response               \* the HTTP response of /analyze

scoring_vars == <<base_weights, base_scores, optimal_choice, market_share>>

search_vars == <<current_leader, ci, di, changes_count, trial>>

explorer_vars == <<tipping_points, criteria_sensitivity, scenario_analysis>>

assessor_vars == <<competitive_gaps, stability_index, confidence_metrics>>

focal_vars == <<your_product, product_context, strengths, weaknesses, investment_areas,
                your_product_analysis>>

handler_vars == <<results, advisory, response>>

vars == <<data, pc, error, scoring_vars, search_vars, explorer_vars, assessor_vars,
          focal_vars, risk_assessment, handler_vars>>

\* the steps, in program order
PcOrder ==
    << "weights", "scores", "market_share", "tipping_start", "tipping_trial", "gaps",
       "stability", "context", "confidence", "sensitivity_start", "sensitivity_trial",
       "scenario_start", "scenario_trial", "strengths", "your_product", "risk", "return",
       "advisory_key", "advisory_model", "advisory_prompt", "advisory_generate",
       "respond", "done" >>

\* the step named `step` has completed
Past(step) == IndexOf(PcOrder, pc, 1) > IndexOf(PcOrder, step, 1)

NoResults == [returned |-> FALSE]

NoResponse == [status |-> 0]

Init ==
    /\ data \in Requests
    /\ pc = "weights"
    /\ error = None
    /\ base_weights = WeightSet(0, 0, 0, 0, 0)
    /\ base_scores = <<>>
    /\ optimal_choice = None
    /\ market_share = <<>>
    /\ tipping_points = <<>>
    /\ competitive_gaps = <<>>
    /\ stability_index = 0
    /\ your_product = None
    /\ product_context = [primary_product |-> None]
    /\ confidence_metrics = <<>>
    /\ criteria_sensitivity = <<>>
    /\ scenario_analysis = <<>>
    /\ strengths = <<>>
    /\ weaknesses = <<>>
    /\ investment_areas = <<>>
    /\ your_product_analysis = [yourProduct |-> None]
    /\ risk_assessment = RiskAssessment(<<>>)
    /\ current_leader = None
    /\ ci = 0
    /\ di = 0
    /\ changes_count = 0
    /\ trial = NoTrial
    /\ results = NoResults
    /\ advisory = None
    /\ response = NoResponse

\* a step runs while no exception is in flight
Running(step) == pc = step /\ error = None

(***************************************************************************)
(* solve_game (game_logic.py 474-573), step by step.                       *)
(***************************************************************************)
\* data.weights.get(key, default)
WeightGet(w, key) == IF key \in DOMAIN w THEN w[key] ELSE DefaultWeight[key]

\* 477-495: a non-empty dict is read key by key, a WeightSet is taken as it is,
\* anything else gives the engine default
resolve_weights(d) ==
    IF d.weights.kind = "dict" /\ DOMAIN d.weights.w # {}
    THEN WeightSet(WeightGet(d.weights.w, "fuel"), WeightGet(d.weights.w, "safety"),
                   WeightGet(d.weights.w, "tech"), WeightGet(d.weights.w, "service"),
                   WeightGet(d.weights.w, "price"))
    ELSE IF d.weights.kind = "obj"
    THEN WeightSet(d.weights.w.fuel, d.weights.w.safety, d.weights.w.tech,
                   d.weights.w.service, d.weights.w.price)
    ELSE WeightSet(30, 25, 20, 15, 10)

ResolveWeights ==
    /\ Running("weights")
    /\ base_weights' = resolve_weights(data)
    /\ pc' = "scores"
    /\ UNCHANGED <<data, error, base_scores, optimal_choice, market_share, search_vars,
                   explorer_vars, assessor_vars, focal_vars, risk_assessment, handler_vars>>

\* 499-505: base_scores and optimal_choice
BaseScores ==
    /\ Running("scores")
    /\ IF UtilityRaises(data)
       THEN /\ error' = "IndexError"
            /\ UNCHANGED <<pc, base_scores, optimal_choice>>
       ELSE /\ base_scores' \in calculate_utility_scores(data, base_weights)
            /\ optimal_choice' = Leader(data, base_scores')
            /\ pc' = "market_share"
            /\ UNCHANGED error
    /\ UNCHANGED <<data, base_weights, market_share, search_vars, explorer_vars,
                   assessor_vars, focal_vars, risk_assessment, handler_vars>>

\* 508
MarketShare ==
    /\ Running("market_share")
    /\ market_share' \in calculate_market_share(base_scores)
    /\ pc' = "tipping_start"
    /\ UNCHANGED <<data, error, base_weights, base_scores, optimal_choice, search_vars,
                   explorer_vars, assessor_vars, focal_vars, risk_assessment, handler_vars>>

\* the next (criterion, delta) position of a search over n_deltas deltas per criterion
LastTrial(n_deltas) == ci = Len(Criteria) /\ di = n_deltas

NextCi(n_deltas) == IF di = n_deltas THEN ci + 1 ELSE ci

NextDi(n_deltas) == IF di = n_deltas THEN 1 ELSE di + 1

\* faulty variant: every trial is recorded
LeaderChangedAlways(new_leader, leader) == TRUE

\* 414: if new_leader != current_leader
LeaderChanged(new_leader, leader) == new_leader # leader

\* 511, 382-387: find_tipping_points starts
BeginTippingPoints ==
    /\ Running("tipping_start")
    /\ tipping_points' = <<>>
    /\ \E scores \in calculate_utility_scores(data, base_weights) :
           scores = base_scores /\ current_leader' = Leader(data, scores)
    /\ ci' = 1
    /\ di' = 1
    /\ pc' = "tipping_trial"
    /\ UNCHANGED <<data, error, scoring_vars, changes_count, trial, criteria_sensitivity,
                   scenario_analysis, assessor_vars, focal_vars, risk_assessment,
                   handler_vars>>

\* 389-423: one pass of the inner loop; after the last pass the function returns.
\* The function's own base_scores (383) is the map solve_game already holds: the
\* same call on the same arguments.
TippingTrial ==
    /\ Running("tipping_trial")
    /\ \E t \in Trial("tipping", data, base_weights, Criteria[ci], TippingDeltas[di],
                     TippingNewWeight(base_weights[Criteria[ci]], TippingDeltas[di])) :
           /\ trial' = t
           /\ IF t.total_weight = 0
              THEN /\ error' = "ZeroDivisionError"
                   /\ UNCHANGED <<pc, ci, di, tipping_points>>
              ELSE /\ tipping_points' =
                          IF LeaderChanged(t.new_leader, current_leader)
                          THEN Append(tipping_points,
                                      TippingPoint(data, base_scores, t, current_leader))
                          ELSE tipping_points
                   /\ ci' = NextCi(Len(TippingDeltas))
                   /\ di' = NextDi(Len(TippingDeltas))
                   /\ pc' = IF LastTrial(Len(TippingDeltas)) THEN "gaps" ELSE pc
                   /\ UNCHANGED error
    /\ UNCHANGED <<data, scoring_vars, current_leader, changes_count, criteria_sensitivity,
                   scenario_analysis, assessor_vars, focal_vars, risk_assessment,
                   handler_vars>>

\* 514
CompetitiveGaps ==
    /\ Running("gaps")
    /\ competitive_gaps' = calculate_competitive_gaps(data)
    /\ pc' = "stability"
    /\ UNCHANGED <<data, error, scoring_vars, search_vars, explorer_vars, stability_index,
                   confidence_metrics, focal_vars, risk_assessment, handler_vars>>

\* 517
AssessStability ==
    /\ Running("stability")
    /\ stability_index' \in assess_market_stability(base_scores, Len(tipping_points))
    /\ pc' = "context"
    /\ UNCHANGED <<data, error, scoring_vars, search_vars, explorer_vars, competitive_gaps,
                   confidence_metrics, focal_vars, risk_assessment, handler_vars>>

\* 520-521
ProductContext ==
    /\ Running("context")
    /\ your_product' = OrElse(data.yourProduct, data.rowLabels[1])
    /\ product_context' = detect_product_context(your_product')
    /\ pc' = "confidence"
    /\ UNCHANGED <<data, error, scoring_vars, search_vars, explorer_vars, assessor_vars,
                   strengths, weaknesses, investment_areas, your_product_analysis,
                   risk_assessment, handler_vars>>

\* 524-529
ConfidenceMetrics ==
    /\ Running("confidence")
    /\ confidence_metrics' =
           calculate_confidence_metrics(data, base_scores, Len(tipping_points))
    /\ pc' = "sensitivity_start"
    /\ UNCHANGED <<data, error, scoring_vars, search_vars, explorer_vars, competitive_gaps,
                   stability_index, focal_vars, risk_assessment, handler_vars>>

\* 530, 171-175: calculate_criteria_sensitivity starts
BeginCriteriaSensitivity ==
    /\ Running("sensitivity_start")
    /\ criteria_sensitivity' = <<>>
    /\ \E scores \in calculate_utility_scores(data, base_weights) :
           scores = base_scores /\ current_leader' = Leader(data, scores)
    /\ ci' = 1
    /\ di' = 1
    /\ changes_count' = 0
    /\ pc' = "sensitivity_trial"
    /\ UNCHANGED <<data, error, scoring_vars, trial, tipping_points, scenario_analysis,
                   assessor_vars, focal_vars, risk_assessment, handler_vars>>

\* 182-205: one pass of the inner loop; the last pass of a criterion stores its
\* percentage (in tenths), the last pass of all returns
SensitivityTrial ==
    /\ Running("sensitivity_trial")
    /\ \E t \in Trial("sensitivity", data, base_weights, Criteria[ci], SensitivityDeltas[di],
                     SensitivityNewWeight(base_weights[Criteria[ci]], SensitivityDeltas[di])) :
       LET criterion == Criteria[ci]
           n_deltas  == Len(SensitivityDeltas)
           changes == IF t.new_leader # current_leader
                      THEN changes_count + 1 ELSE changes_count
       IN  /\ trial' = t
           /\ IF t.total_weight = 0
              THEN /\ error' = "ZeroDivisionError"
                   /\ UNCHANGED <<pc, ci, di, changes_count, criteria_sensitivity>>
              ELSE /\ criteria_sensitivity' =
                          IF di = n_deltas
                          THEN Append(criteria_sensitivity,
                                      [criterion   |-> criterion,
                                       sensitivity |-> RoundHalfEven(1000 * changes, n_deltas)])
                          ELSE criteria_sensitivity
                   /\ changes_count' = IF di = n_deltas THEN 0 ELSE changes
                   /\ ci' = NextCi(n_deltas)
                   /\ di' = NextDi(n_deltas)
                   /\ pc' = IF LastTrial(n_deltas) THEN "scenario_start" ELSE pc
                   /\ UNCHANGED error
    /\ UNCHANGED <<data, scoring_vars, current_leader, tipping_points, scenario_analysis,
                   assessor_vars, focal_vars, risk_assessment, handler_vars>>

\* 531, 211-219: generate_scenario_analysis starts
BeginScenarioAnalysis ==
    /\ Running("scenario_start")
    /\ scenario_analysis' = <<>>
    /\ ci' = 0
    /\ di' = 1
    /\ pc' = "scenario_trial"
    /\ UNCHANGED <<data, error, scoring_vars, current_leader, changes_count, trial,
                   tipping_points, criteria_sensitivity, assessor_vars, focal_vars,
                   risk_assessment, handler_vars>>

\* 221-251: one scenario
ScenarioTrial ==
    /\ Running("scenario_trial")
    /\ \E t \in Trial("scenario", data, base_weights, scenario_configs[di].criterion,
                     scenario_configs[di].boost,
                     ScenarioNewWeight(base_weights[scenario_configs[di].criterion],
                                       scenario_configs[di].boost)) :
       \E scores \in calculate_utility_scores(data, base_weights) :
       LET cfg == scenario_configs[di]
       IN  /\ scores = base_scores
           /\ trial' = t
           /\ IF t.total_weight = 0
              THEN /\ error' = "ZeroDivisionError"
                   /\ UNCHANGED <<pc, di, scenario_analysis>>
              ELSE /\ \E shares \in calculate_market_share(t.new_scores) :
                      scenario_analysis' =
                          Append(scenario_analysis,
                                 [scenarioName     |-> cfg.scenarioName,
                                  newLeader        |-> t.new_leader,
                                  marketShareShift |-> shares,
                                  impactScore      |->
                                      Abs(t.new_scores[IndexOf(data.rowLabels, t.new_leader, 1)]
                                          - SortedDesc(scores)[1])])
                   /\ di' = di + 1
                   /\ pc' = IF di = Len(scenario_configs) THEN "strengths" ELSE pc
                   /\ UNCHANGED error
    /\ UNCHANGED <<data, scoring_vars, current_leader, ci, changes_count, tipping_points,
                   criteria_sensitivity, assessor_vars, focal_vars, risk_assessment,
                   handler_vars>>

\* 534
IdentifyStrengths ==
    /\ Running("strengths")
    /\ strengths' = identify_strengths(data, your_product)
    /\ weaknesses' = identify_weaknesses(data, your_product)
    /\ investment_areas' = identify_investments(data, your_product)
    /\ pc' = "your_product"
    /\ UNCHANGED <<data, error, scoring_vars, search_vars, explorer_vars, assessor_vars,
                   your_product, product_context, your_product_analysis, risk_assessment,
                   handler_vars>>

\* 537
AnalyzeYourProduct ==
    /\ Running("your_product")
    /\ your_product_analysis' =
           analyze_your_product(data, base_scores, market_share, your_product)
    /\ pc' = "risk"
    /\ UNCHANGED <<data, error, scoring_vars, search_vars, explorer_vars, assessor_vars,
                   your_product, product_context, strengths, weaknesses, investment_areas,
                   risk_assessment, handler_vars>>

\* 539-555
AssessRisk ==
    /\ Running("risk")
    /\ IF RiskRaises(base_scores)
       THEN /\ error' = "IndexError"
            /\ UNCHANGED <<pc, risk_assessment>>
       ELSE /\ \E factors \in risk_factors(base_scores,
                                             IndexOf(data.rowLabels, optimal_choice, 1),
                                             stability_index, Len(tipping_points)) :
                   risk_assessment' = RiskAssessment(factors)
            /\ pc' = "return"
            /\ UNCHANGED error
    /\ UNCHANGED <<data, scoring_vars, search_vars, explorer_vars, assessor_vars,
                   focal_vars, handler_vars>>

\* 557-573
ReturnResults ==
    /\ Running("return")
    /\ results' = [returned            |-> TRUE,
                   baseScores          |-> base_scores,
                   optimalChoice       |-> optimal_choice,
                   marketShare         |-> market_share,
                   tippingPoints       |-> tipping_points,
                   riskAssessment      |-> risk_assessment,
                   stabilityIndex      |-> stability_index,
                   competitiveGaps     |-> competitive_gaps,
                   productContext      |-> product_context,
                   confidenceMetrics   |-> confidence_metrics,
                   criteriaSensitivity |-> criteria_sensitivity,
                   scenarioAnalysis    |-> scenario_analysis,
                   strengths           |-> strengths,
                   weaknesses          |-> weaknesses,
                   investmentAreas     |-> investment_areas,
                   yourProductAnalysis |-> your_product_analysis]
    /\ pc' = "advisory_key"
    /\ UNCHANGED <<data, error, scoring_vars, search_vars, explorer_vars, assessor_vars,
                   focal_vars, risk_assessment, advisory, response>>

(***************************************************************************)
(* generate_advisory (gemini_service.py 34-193) and the handler            *)
(* analyze_business_decision (main.py 68-85).  Whether the key is set, a   *)
(* model answers and the generation succeeds is the environment's choice.  *)
(***************************************************************************)
\* 38-40: raise ValueError when GEMINI_API_KEY is not set
AdvisoryApiKey ==
    /\ Running("advisory_key")
    /\ \E api_key_set \in BOOLEAN :
           IF api_key_set
           THEN pc' = "advisory_model" /\ UNCHANGED error
           ELSE error' = "ValueError" /\ UNCHANGED pc
    /\ UNCHANGED <<data, scoring_vars, search_vars, explorer_vars, assessor_vars,
                   focal_vars, risk_assessment, handler_vars>>

\* 45-63: raise Exception when none of the model names answers
AdvisoryModel ==
    /\ Running("advisory_model")
    /\ \E model_found \in BOOLEAN :
           IF model_found
           THEN pc' = "advisory_prompt" /\ UNCHANGED error
           ELSE error' = "Exception" /\ UNCHANGED pc
    /\ UNCHANGED <<data, scoring_vars, search_vars, explorer_vars, assessor_vars,
                   focal_vars, risk_assessment, handler_vars>>

\* 65-147: the prompt is built outside the try block
AdvisoryPrompt ==
    /\ Running("advisory_prompt")
    /\ IF PromptRaises(data, results.optimalChoice)
       THEN error' = "PromptError" /\ UNCHANGED pc
       ELSE pc' = "advisory_generate" /\ UNCHANGED error
    /\ UNCHANGED <<data, scoring_vars, search_vars, explorer_vars, assessor_vars,
                   focal_vars, risk_assessment, handler_vars>>

\* 149-193: the generated report, or on any exception of the call or of its
\* parsing the templated fallback, which may itself raise
AdvisoryGenerate ==
    /\ Running("advisory_generate")
    /\ \E generated \in BOOLEAN :
           IF generated
           THEN advisory' = "generated" /\ pc' = "respond" /\ UNCHANGED error
           ELSE IF FallbackRaises(data)
           THEN error' = "IndexError" /\ UNCHANGED <<pc, advisory>>
           ELSE advisory' = "fallback" /\ pc' = "respond" /\ UNCHANGED error
    /\ UNCHANGED <<data, scoring_vars, search_vars, explorer_vars, assessor_vars,
                   focal_vars, risk_assessment, results, response>>

\* main.py 80-83
Respond ==
    /\ Running("respond")
    /\ response' = [status |-> 200, results |-> results, advisory |-> advisory]
    /\ pc' = "done"
    /\ UNCHANGED <<data, error, scoring_vars, search_vars, explorer_vars, assessor_vars,
                   focal_vars, risk_assessment, results, advisory>>

\* main.py 84-85: any exception of solve_game or generate_advisory becomes a 500
RespondError ==
    /\ error # None
    /\ response = NoResponse
    /\ response' = [status |-> 500, detail |-> error]
    /\ UNCHANGED <<data, pc, error, scoring_vars, search_vars, explorer_vars,
                   assessor_vars, focal_vars, risk_assessment, results, advisory>>

Next ==
    \/ ResolveWeights
    \/ BaseScores
    \/ MarketShare
    \/ BeginTippingPoints
    \/ TippingTrial
    \/ CompetitiveGaps
    \/ AssessStability
    \/ ProductContext
    \/ ConfidenceMetrics
    \/ BeginCriteriaSensitivity
    \/ SensitivityTrial
    \/ BeginScenarioAnalysis
    \/ ScenarioTrial
    \/ IdentifyStrengths
    \/ AnalyzeYourProduct
    \/ AssessRisk
    \/ ReturnResults
    \/ AdvisoryApiKey
    \/ AdvisoryModel
    \/ AdvisoryPrompt
    \/ AdvisoryGenerate
    \/ Respond
    \/ RespondError

Spec == Init /\ [][Next]_vars

(***************************************************************************)
(* assess_market_stability on its own: any score map of 1..MaxRows scores  *)
(* with any number of tipping points up to MaxTipping.                     *)
(***************************************************************************)
ScorePool == {0, 500, 765, 785, 1000, 2500}

ScoreMaps == UNION {[1..n -> ScorePool] : n \in 1..MaxRows}

SomeTippingPoint ==
    [criterion |-> "fuel", weightChange |-> 5, newWeight |-> 350, previousLeader |-> "A",
     newLeader |-> "B", scoreChange |-> 0]

InitStability ==
    /\ data = MatrixData(<<<<8, 9, 7, 8, 6>>>>, "ok", None, NoWeights)
    /\ pc = "stability"
    /\ error = None
    /\ base_weights = WeightSet(30, 25, 20, 15, 10)
    /\ base_scores \in ScoreMaps
    /\ optimal_choice = None
    /\ market_share = <<>>
    /\ tipping_points \in {[k \in 1..n |-> SomeTippingPoint] : n \in 0..MaxTipping}
    /\ competitive_gaps = <<>>
    /\ stability_index = 0
    /\ your_product = None
    /\ product_context = [primary_product |-> None]
    /\ confidence_metrics = <<>>
    /\ criteria_sensitivity = <<>>
    /\ scenario_analysis = <<>>
    /\ strengths = <<>>
    /\ weaknesses = <<>>
    /\ investment_areas = <<>>
    /\ your_product_analysis = [yourProduct |-> None]
    /\ risk_assessment = RiskAssessment(<<>>)
    /\ current_leader = None
    /\ ci = 0
    /\ di = 0
    /\ changes_count = 0
    /\ trial = NoTrial
    /\ results = NoResults
    /\ advisory = None
    /\ response = NoResponse

SpecStability == InitStability /\ [][AssessStability]_vars

(***************************************************************************)
(* The functions of the matrix alone, each on its own: any matrix of       *)
(* 1..MaxRows rows <<a, 14 - a, 7, 8, a>>, a in 4..10, so that a column    *)
(* meets every threshold of the classification and the row sums differ.    *)
(***************************************************************************)
ProfilePool == {<<a, 14 - a, 7, 8, a>> : a \in 4..10}

ProfileMatrices == UNION {[1..n -> ProfilePool] : n \in 1..MaxRows}

\* solve_game stopped in front of `step`, nothing computed yet
Idle(d, step) ==
    /\ data = d
    /\ pc = step
    /\ error = None
    /\ base_weights = WeightSet(30, 25, 20, 15, 10)
    /\ base_scores = <<>>
    /\ optimal_choice = None
    /\ market_share = <<>>
    /\ tipping_points = <<>>
    /\ competitive_gaps = <<>>
    /\ stability_index = 0
    /\ your_product = OrElse(d.yourProduct, d.rowLabels[1])
    /\ product_context = [primary_product |-> None]
    /\ confidence_metrics = <<>>
    /\ criteria_sensitivity = <<>>
    /\ scenario_analysis = <<>>
    /\ strengths = <<>>
    /\ weaknesses = <<>>
    /\ investment_areas = <<>>
    /\ your_product_analysis = [yourProduct |-> None]
    /\ risk_assessment = RiskAssessment(<<>>)
    /\ current_leader = None
    /\ ci = 0
    /\ di = 0
    /\ changes_count = 0
    /\ trial = NoTrial
    /\ results = NoResults
    /\ advisory = None
    /\ response = NoResponse

InitGaps == \E p \in ProfileMatrices : Idle(MatrixData(p, "ok", None, NoWeights), "gaps")

SpecGaps == InitGaps /\ [][CompetitiveGaps]_vars

\* identify_strengths_and_investments for any focal label
FindingsRequests ==
    {MatrixData(p, "ok", y, NoWeights) : p \in ProfileMatrices, y \in YourProducts}

InitFindings == \E d \in FindingsRequests : Idle(d, "strengths")

SpecFindings == InitFindings /\ [][IdentifyStrengths]_vars

(***************************************************************************)
(* The risk assessment of solve_game (539-555) on its own: any score map   *)
(* of 1..MaxRows scores, its leader, any number of tipping points up to    *)
(* MaxTipping and a stability index assess_market_stability gives them.    *)
(***************************************************************************)
RiskScorePool == {565, 585, 765, 785, 1000}

RiskScoreMaps == UNION {[1..n -> RiskScorePool] : n \in 1..MaxRows}

InitRisk ==
    \E scores \in RiskScoreMaps : \E n \in 0..MaxTipping :
        LET d == MatrixData([i \in 1..Len(scores) |-> <<8, 9, 7, 8, 6>>], "ok", None, NoWeights)
        IN  /\ data = d
            /\ pc = "risk"
            /\ error = None
            /\ base_weights = WeightSet(30, 25, 20, 15, 10)
            /\ base_scores = scores
            /\ optimal_choice = Leader(d, scores)
            /\ market_share = <<>>
            /\ tipping_points = [k \in 1..n |-> SomeTippingPoint]
            /\ competitive_gaps = <<>>
            /\ stability_index \in assess_market_stability(scores, n)
            /\ your_product = d.rowLabels[1]
            /\ product_context = [primary_product |-> None]
            /\ confidence_metrics = <<>>
            /\ criteria_sensitivity = <<>>
            /\ scenario_analysis = <<>>
            /\ strengths = <<>>
            /\ weaknesses = <<>>
            /\ investment_areas = <<>>
            /\ your_product_analysis = [yourProduct |-> None]
            /\ risk_assessment = RiskAssessment(<<>>)
            /\ current_leader = None
            /\ ci = 0
            /\ di = 0
            /\ changes_count = 0
            /\ trial = NoTrial
            /\ results = NoResults
            /\ advisory = None
            /\ response = NoResponse

SpecRisk == InitRisk /\ [][AssessRisk]_vars

(***************************************************************************)
(* calculate_market_share (462-472) on its own: any non-empty score map of *)
(* 1..MaxRows scores, close together, far apart and equal.                 *)
(***************************************************************************)
SharePool == {0, 690, 700, 701, 765, 1000, 2500}

ShareScoreMaps == UNION {[1..n -> SharePool] : n \in 1..MaxRows}

InitShare ==
    \E scores \in ShareScoreMaps :
        LET d == MatrixData([i \in 1..Len(scores) |-> <<8, 9, 7, 8, 6>>], "ok", None, NoWeights)
        IN  /\ data = d
            /\ pc = "market_share"
            /\ error = None
            /\ base_weights = WeightSet(30, 25, 20, 15, 10)
            /\ base_scores = scores
            /\ optimal_choice = Leader(d, scores)
            /\ market_share = <<>>
            /\ tipping_points = <<>>
            /\ competitive_gaps = <<>>
            /\ stability_index = 0
            /\ your_product = d.rowLabels[1]
            /\ product_context = [primary_product |-> None]
            /\ confidence_metrics = <<>>
            /\ criteria_sensitivity = <<>>
            /\ scenario_analysis = <<>>
            /\ strengths = <<>>
            /\ weaknesses = <<>>
            /\ investment_areas = <<>>
            /\ your_product_analysis = [yourProduct |-> None]
            /\ risk_assessment = RiskAssessment(<<>>)
            /\ current_leader = None
            /\ ci = 0
            /\ di = 0
            /\ changes_count = 0
            /\ trial = NoTrial
            /\ results = NoResults
            /\ advisory = None
            /\ response = NoResponse

SpecShare == InitShare /\ [][MarketShare]_vars

(***************************************************************************)
(* Properties.                                                             *)
(***************************************************************************)
ExamplePayoffs == <<<<8, 9, 7, 8, 6>>, <<7, 8, 9, 7, 7>>, <<9, 6, 8, 6, 9>>>>

\* round(sum_j payoffs[i][j] * weight[j], 2) in hundredths, written out for the
\* five criteria in the order fuel, safety, tech, service, price
ExpectedUtility(d, w, i) ==
    RoundNearest(100 * (d.payoffs[i][1] * w.fuel + d.payoffs[i][2] * w.safety
                         + d.payoffs[i][3] * w.tech + d.payoffs[i][4] * w.service
                         + d.payoffs[i][5] * w.price),
                 w.scale)

ExpectedScores(d, w, scores) ==
    /\ Len(scores) = Len(d.rowLabels)
    /\ \A i \in 1..Len(d.rowLabels) : scores[i] \in ExpectedUtility(d, w, i)

\* C1: with five criteria, every score map calculate_utility_scores returns (the
\* base scores and each trial's scores under its renormalised weights) gives row i
\* round(sum_j payoffs[i][j] * weight[j], 2), the weights in the order fuel, safety,
\* tech, service, price; the example matrix under the default weights scores
\* 7.85, 7.65, 7.6 and its first alternative leads.
C1_UtilityScores ==
    /\ (Past("scores") /\ data.cols = 5) => ExpectedScores(data, base_weights, base_scores)
    /\ (trial.search # "none" /\ trial.total_weight # 0 /\ data.cols = 5)
          => ExpectedScores(data, trial.test_weights, trial.new_scores)
    /\ (Past("scores") /\ data.cols = 5 /\ data.payoffs = ExamplePayoffs
           /\ base_weights = WeightSet(30, 25, 20, 15, 10))
          => (base_scores = <<785, 765, 760>> /\ optimal_choice = "A")

\* the example matrix has been scored under the default weights, and a trial has
\* scored it under renormalised weights whose total is not 1
C1_Witness ==
    /\ data.payoffs = ExamplePayoffs
    /\ data.cols = 5
    /\ base_weights = WeightSet(30, 25, 20, 15, 10)
    /\ base_scores = <<785, 765, 760>>
    /\ optimal_choice = "A"
    /\ trial.search = "tipping"
    /\ trial.test_weights.scale = 85
    /\ trial.new_scores = <<765, 759, 788>>

\* row idx holds the top score and is the earliest row holding it
EarliestTop(scores, idx) ==
    /\ idx \in 1..Len(scores)
    /\ \A k \in 1..Len(scores) : scores[k] <= scores[idx]
    /\ \A k \in 1..(idx - 1) : scores[k] < scores[idx]

\* C2: the optimalChoice solve_game returns has the top base score and is the
\* earliest such row; it is the previousLeader of every tipping point and the
\* marketLeader of yourProductAnalysis, whose isLeader holds exactly when the
\* analysed alternative is that optimalChoice.
C2_LeaderConsistent ==
    results.returned =>
        /\ Len(data.rowLabels) >= 2
        /\ EarliestTop(results.baseScores, IndexOf(data.rowLabels, results.optimalChoice, 1))
        /\ \A k \in 1..Len(results.tippingPoints) :
               results.tippingPoints[k].previousLeader = results.optimalChoice
        /\ results.yourProductAnalysis.marketLeader = results.optimalChoice
        /\ results.yourProductAnalysis.isLeader
              <=> (results.yourProductAnalysis.yourProduct = results.optimalChoice)

\* a returned analysis whose first two rows tie for the top score, with tipping
\* points, analysed for the second row
C2_Witness ==
    /\ results.returned
    /\ results.baseScores[1] = results.baseScores[2]
    /\ results.optimalChoice = "A"
    /\ Len(results.tippingPoints) > 0
    /\ results.yourProductAnalysis.yourProduct = "B"
    /\ ~results.yourProductAnalysis.isLeader

\* the position of a (criterion, delta) pair in the tipping-point grid, 1..30
GridPosition(criterion, weight_change) ==
    (IndexOf(Criteria, criterion, 1) - 1) * Len(TippingDeltas)
    + IndexOf(TippingDeltas, weight_change, 1)

TippingSearchRunning == pc = "tipping_trial" /\ error = None

\* C3: the tipping-point search walks the grid of five criteria by the six deltas
\* -0.15 .. +0.15 in order, one trial each; a (criterion, delta) trial has a record
\* exactly when its leader differs from the baseline leader; every record has
\* previousLeader # newLeader and scoreChange = the new leader's perturbed score
\* minus the baseline leader's baseline score, rounded to 2 decimals.
C3_TippingPoints ==
    /\ TippingDeltas = <<-15, -10, -5, 5, 10, 15>>
    /\ (TippingSearchRunning /\ trial.search # "tipping") => (ci = 1 /\ di = 1)
    /\ (TippingSearchRunning /\ trial.search = "tipping")
          => GridPosition(trial.criterion, trial.weight_change) + 1
               = (ci - 1) * Len(TippingDeltas) + di
    /\ pc = "gaps" => (trial.search = "tipping"
                        /\ GridPosition(trial.criterion, trial.weight_change) = 30)
    /\ \A k \in 1..Len(tipping_points) :
          /\ tipping_points[k].previousLeader # tipping_points[k].newLeader
          /\ GridPosition(tipping_points[k].criterion, tipping_points[k].weightChange)
                \in 1..30
          /\ \A m \in 1..(k - 1) :
                GridPosition(tipping_points[m].criterion, tipping_points[m].weightChange)
                  < GridPosition(tipping_points[k].criterion, tipping_points[k].weightChange)
    /\ (trial.search = "tipping" /\ trial.total_weight # 0) =>
          LET recorded == \E k \in 1..Len(tipping_points) :
                              /\ tipping_points[k].criterion = trial.criterion
                              /\ tipping_points[k].weightChange = trial.weight_change
              last == tipping_points[Len(tipping_points)]
          IN  /\ recorded <=> (trial.new_leader # current_leader)
              /\ recorded =>
                    /\ last.criterion = trial.criterion
                    /\ last.weightChange = trial.weight_change
                    /\ last.previousLeader = current_leader
                    /\ last.newLeader = trial.new_leader
                    /\ last.scoreChange =
                          RoundHalfEven(
                              100 * (trial.new_scores[IndexOf(data.rowLabels, trial.new_leader, 1)]
                                     - base_scores[IndexOf(data.rowLabels, current_leader, 1)]),
                              100)

\* a trial that changed the leader has been recorded, and a later trial that kept
\* the leader has not
C3_Witness ==
    /\ trial.search = "tipping"
    /\ Len(tipping_points) >= 1
    /\ tipping_points[1].scoreChange # 0
    /\ trial.new_leader = current_leader
    /\ GridPosition(trial.criterion, trial.weight_change)
         > GridPosition(tipping_points[Len(tipping_points)].criterion,
                        tipping_points[Len(tipping_points)].weightChange)

NonNegative(weights) == \A j \in 1..Len(Criteria) : weights[Criteria[j]] >= 0

\* C4: from a baseline of non-negative weights, every trial of the three searches
\* has a strictly positive weight total after the perturbation, and the weights it
\* scores with sum to 1.
C4_RenormalisedWeights ==
    (trial.search # "none" /\ NonNegative(base_weights)) =>
        /\ trial.total_weight > 0
        /\ trial.test_weights.scale > 0
        /\ total_weight(trial.test_weights) = trial.test_weights.scale

\* a zero weight lowered by 0.15 is clamped to 0.01 and the total becomes 1.01
C4_Witness ==
    /\ trial.search = "tipping"
    /\ NonNegative(base_weights)
    /\ base_weights.fuel = 0
    /\ trial.criterion = "fuel"
    /\ trial.weight_change = -15
    /\ trial.total_weight = 101
    /\ total_weight(trial.test_weights) = trial.test_weights.scale

\* the override carries a weight for criterion c
Overrides(d, c) == d.weights.kind # "none" /\ c \in DOMAIN d.weights.w

\* C5: the baseline solve_game scores with is the override where one is supplied
\* and the default (0.30, 0.25, 0.20, 0.15, 0.10) otherwise, and in every case its
\* weights are >= 0 and sum to 1.
C5_BaselineNormalised ==
    Past("weights") =>
        /\ \A c \in CriteriaSet :
               base_weights[c] = IF Overrides(data, c) THEN data.weights.w[c]
                                 ELSE DefaultWeight[c]
        /\ NonNegative(base_weights)
        /\ base_weights.scale = 100
        /\ total_weight(base_weights) = 100

\* C6: a request whose shape is malformed is rejected before anything is computed:
\* no base scores, no returned analysis.
C6_MalformedRejected ==
    ~WellFormed(data) => (~Past("scores") /\ ~results.returned)

\* C7: with exactly one alternative (well-formed, default weights) solve_game
\* raises nothing: an exception can only come from the collaborator, after the
\* analysis has been returned.
C7_SingleAlternative ==
    (Len(data.rowLabels) = 1 /\ WellFormed(data) /\ data.weights.kind = "none")
        => (error # None => results.returned)

FocalFallsBack(d) ==
    ~Truthy(d.yourProduct) \/ IndexOf(d.rowLabels, d.yourProduct, 1) = 0

\* C8: when yourProduct is absent or no row label, the returned analysis names
\* the first row as the focal alternative in yourProductAnalysis.yourProduct and
\* in productContext.primary_product.
C8_FocalFallbackReported ==
    (results.returned /\ FocalFallsBack(data)) =>
        /\ results.yourProductAnalysis.yourProduct = data.rowLabels[1]
        /\ results.productContext.primary_product = data.rowLabels[1]

\* C9: once solve_game has returned, the request does not end in an error: a
\* collaborator that cannot produce a report yields the fallback report.
C9_AdvisoryFailureIsolated ==
    results.returned => (error = None /\ response.status # 500)

\* round(min(1, leaderMargin / 10) * max(0.1, 1 - 0.1 * count), 3) in thousandths,
\* or 0.5 * max(0.1, 1 - 0.1 * count) with fewer than two scores
ExpectedStability(scores, count) ==
    LET vulnerability == IF 10 - count < 1 THEN 1 ELSE 10 - count
    IN  IF Len(scores) < 2 THEN {50 * vulnerability}
        ELSE LET top    == CHOOSE x \in {scores[i] : i \in 1..Len(scores)} :
                               \A i \in 1..Len(scores) : scores[i] <= x
                 second == CHOOSE y \in {scores[i] : i \in 1..Len(scores)} :
                               \E i \in 1..Len(scores) :
                                   /\ scores[i] = top
                                   /\ y <= top
                                   /\ \A k \in (1..Len(scores)) \ {i} : scores[k] <= y
                                   /\ \E k \in (1..Len(scores)) \ {i} : scores[k] = y
                 margin == IF top - second > 1000 THEN 1000 ELSE top - second
             IN  RoundNearest(margin * vulnerability, 10)

\* C10: the stability index lies in [0, 1]; it is 1.0 exactly when there are no
\* tipping points; with at least one it is
\* round(min(1, leaderMargin / 10) * max(0.1, 1 - 0.1 * count), 3), or 0.5 times
\* that vulnerability factor when there are fewer than two scores.
C10_StabilityIndex ==
    Past("stability") =>
        /\ stability_index >= 0
        /\ stability_index <= 1000
        /\ stability_index = 1000 <=> Len(tipping_points) = 0
        /\ Len(tipping_points) >= 1
              => stability_index \in ExpectedStability(base_scores, Len(tipping_points))

\* a single score with three tipping points: 0.5 * 0.7 = 0.35
C10_Witness ==
    /\ Past("stability")
    /\ Len(base_scores) = 1
    /\ Len(tipping_points) = 3
    /\ stability_index = 350
\* the average over the five criteria of payoffs[a][c] - payoffs[b][c], rounded to
\* 2 decimals, in hundredths
ExpectedGap(d, a, b) ==
    RoundHalfEven(100 * (SumSeq(d.payoffs[a]) - SumSeq(d.payoffs[b])), Len(Criteria))

\* C11: calculate_competitive_gaps has an entry for every ordered pair of distinct
\* alternatives and none for a pair (a, a); the entry is the average over the
\* criteria of payoffs[a] - payoffs[b] rounded to 2 decimals; and
\* gap(a, b) = -gap(b, a).
C11_CompetitiveGaps ==
    (Past("gaps") /\ WellFormed(data)) =>
        LET rows == 1..Len(data.rowLabels)
        IN  /\ DOMAIN competitive_gaps = rows
            /\ \A a \in rows :
                   /\ DOMAIN competitive_gaps[a] = rows \ {a}
                   /\ \A b \in rows \ {a} :
                          /\ competitive_gaps[a][b] = ExpectedGap(data, a, b)
                          /\ competitive_gaps[a][b] = -competitive_gaps[b][a]

\* three alternatives with gaps of both signs: 0.4 = (31 - 33) / 5 in size
C11_Witness ==
    /\ Past("gaps")
    /\ Len(data.rowLabels) = 3
    /\ competitive_gaps[1][2] = -40
    /\ competitive_gaps[2][1] = 40
    /\ competitive_gaps[1][3] > 0
\* the row the focal diagnostics are about: the row labelled yourProduct, the
\* first row when there is none
Focal(d) ==
    IF \E i \in 1..Len(d.rowLabels) : d.rowLabels[i] = d.yourProduct
    THEN CHOOSE i \in 1..Len(d.rowLabels) : d.rowLabels[i] = d.yourProduct
    ELSE 1

\* s: the focal score on criterion j
FocalScore(d, j) == d.payoffs[Focal(d)][j]

\* best: the maximum competitor score on criterion j (0 without competitors)
BestCompetitor(d, j) ==
    LET others == {d.payoffs[i][j] : i \in (1..Len(d.rowLabels)) \ {Focal(d)}}
    IN  IF others = {} THEN 0 ELSE CHOOSE m \in others : \A x \in others : x <= m

\* the positions of the records about criterion j
RecordsFor(records, j) == {k \in 1..Len(records) : records[k].criterion = Criteria[j]}

\* C12: for each criterion, a strength is recorded exactly when s >= 8 and
\* s >= best, a weakness (with gap = best - s) exactly when it is no strength and
\* best - s >= 1; no criterion has both.
C12_StrengthWeakness ==
    (Past("strengths") /\ WellFormed(data)) =>
        \A j \in 1..Len(Criteria) :
            LET s    == FocalScore(data, j)
                best == BestCompetitor(data, j)
                S    == RecordsFor(strengths, j)
                W    == RecordsFor(weaknesses, j)
            IN  /\ Cardinality(S) = IF s >= 8 /\ s >= best THEN 1 ELSE 0
                /\ Cardinality(W) = IF ~(s >= 8 /\ s >= best) /\ best - s >= 1 THEN 1 ELSE 0
                /\ \A k \in S : strengths[k].score = s
                /\ \A k \in W : /\ weaknesses[k].score = s
                                 /\ weaknesses[k].competitorBest = best
                                 /\ weaknesses[k].gap = best - s
                /\ ~(S # {} /\ W # {})

\* the second row is analysed against two competitors: a score of 8 that a
\* competitor beats is a weakness, and the 8 all share on service is a strength
C12_Witness ==
    /\ Past("strengths")
    /\ Len(data.rowLabels) = 3
    /\ Focal(data) = 2
    /\ FocalScore(data, 1) = 8
    /\ BestCompetitor(data, 1) = 10
    /\ RecordsFor(weaknesses, 1) # {}
    /\ RecordsFor(strengths, 1) = {}
    /\ RecordsFor(strengths, 4) # {}

\* C13: for each criterion, an investment is recorded exactly when s < 7 or
\* best - s >= 2; its priority is High for a gap best - s >= 3, Medium for a gap
\* >= 2, Low otherwise, and its targetScore is min(10, best + 1).  A score of 5
\* against a best of 8 gives a weakness of gap 3 and a High investment; a score of
\* 9 against a best of 7 gives a strength and neither of the others.
C13_Investments ==
    (Past("strengths") /\ WellFormed(data)) =>
        \A j \in 1..Len(Criteria) :
            LET s    == FocalScore(data, j)
                best == BestCompetitor(data, j)
                S    == RecordsFor(strengths, j)
                W    == RecordsFor(weaknesses, j)
                I    == RecordsFor(investment_areas, j)
            IN  /\ Cardinality(I) = IF s < 7 \/ best - s >= 2 THEN 1 ELSE 0
                /\ \A k \in I :
                       /\ investment_areas[k].currentScore = s
                       /\ investment_areas[k].priority =
                              IF best - s >= 3 THEN "High"
                              ELSE IF best - s >= 2 THEN "Medium" ELSE "Low"
                       /\ investment_areas[k].targetScore = IF best + 1 > 10 THEN 10 ELSE best + 1
                /\ (s = 5 /\ best = 8) =>
                       /\ \E k \in W : weaknesses[k].gap = 3
                       /\ \E k \in I : investment_areas[k].priority = "High"
                /\ (s = 9 /\ best = 7) => (S # {} /\ W = {} /\ I = {})

\* both examples in one analysis: 5 against 8 on fuel, 9 against 6 or 7 on safety,
\* and elsewhere a target capped at 10
C13_Witness ==
    /\ Past("strengths")
    /\ FocalScore(data, 1) = 5
    /\ BestCompetitor(data, 1) = 8
    /\ \E k \in RecordsFor(investment_areas, 1) :
           investment_areas[k].priority = "High" /\ investment_areas[k].targetScore = 9
    /\ \E k \in RecordsFor(weaknesses, 1) : weaknesses[k].gap = 3
    /\ FocalScore(data, 2) = 9
    /\ RecordsFor(strengths, 2) # {}
    /\ RecordsFor(investment_areas, 2) = {}
\* the top base score minus the second base score, in hundredths
LeaderMargin(scores) ==
    LET top  == CHOOSE i \in 1..Len(scores) : \A k \in 1..Len(scores) : scores[k] <= scores[i]
        rest == (1..Len(scores)) \ {top}
    IN  scores[top] - scores[CHOOSE i \in rest : \A k \in rest : scores[k] <= scores[i]]

HasFactor(assessment, factor) ==
    \E k \in 1..Len(assessment.factors) : assessment.factors[k] = factor

\* C14: the risk assessment holds exactly the factors whose condition holds:
\* stability index < 0.7, more than 5 tipping points, leader margin < 2.0 (at a
\* margin of exactly 2.00 the float difference decides); its level is High with
\* two or more factors, Medium with one, Low with none; the recommendation
\* depends on whether there is any factor.
C14_RiskAssessment ==
    (Past("risk") /\ Len(base_scores) >= 2) =>
        LET vulnerable == HasFactor(risk_assessment, "Market position vulnerable to weight shifts")
            multiple   == HasFactor(risk_assessment, "Multiple sensitivity points detected")
            narrow     == HasFactor(risk_assessment, "Narrow competitive advantage")
            count      == (IF vulnerable THEN 1 ELSE 0) + (IF multiple THEN 1 ELSE 0)
                          + (IF narrow THEN 1 ELSE 0)
        IN  /\ vulnerable <=> stability_index < 700
            /\ multiple <=> Len(tipping_points) > 5
            /\ LeaderMargin(base_scores) < 200 => narrow
            /\ LeaderMargin(base_scores) > 200 => ~narrow
            /\ Len(risk_assessment.factors) = count
            /\ risk_assessment.level = (IF count >= 2 THEN "High"
                                         ELSE IF count = 1 THEN "Medium" ELSE "Low")
            /\ risk_assessment.recommendation =
                  (IF count > 0 THEN "Focus on strengthening weak criteria"
                   ELSE "Maintain current strategy")

\* no tipping point and a margin of 2.15: no factor, level Low
C14_Witness ==
    /\ Past("risk")
    /\ Len(base_scores) = 3
    /\ LeaderMargin(base_scores) = 215
    /\ Len(tipping_points) = 0
    /\ stability_index = 1000
    /\ risk_assessment.factors = <<>>
    /\ risk_assessment.level = "Low"
\* the labels of the rows in `rows`
LabelsOf(d, rows) == {d.rowLabels[i] : i \in rows}

SeqToSet(seq) == {seq[k] : k \in 1..Len(seq)}

\* the position summary of a returned analysis, with `leading` the label of rank 1
PositionSummary(leading) ==
    results.returned =>
        LET summary == results.yourProductAnalysis
            scores  == results.baseScores
            rows    == 1..Len(scores)
            f       == Focal(data)
            higher  == {i \in rows : scores[i] > scores[f]}
            lower   == {i \in rows : scores[i] < scores[f]}
            earlier == {i \in rows : scores[i] = scores[f] /\ i < f}
        IN  /\ summary.yourProduct = data.rowLabels[f]
            /\ summary.yourRank = 1 + Cardinality(higher) + Cardinality(earlier)
            /\ \E l \in rows :
                   /\ \A i \in rows : scores[i] <= scores[l]
                   /\ summary.gapToLeader = scores[l] - scores[f]
            /\ summary.gapToLeader >= 0
            /\ summary.marketLeader = summary.yourProduct => summary.gapToLeader = 0
            /\ SeqToSet(summary.aheadOf) = LabelsOf(data, lower)
            /\ Len(summary.aheadOf) = Cardinality(lower)
            /\ SeqToSet(summary.behind) = LabelsOf(data, higher)
            /\ Len(summary.behind) = Cardinality(higher)
            /\ summary.position = (IF summary.yourRank = 1 THEN leading
                                    ELSE IF summary.yourRank = 2 THEN "Strong Challenger"
                                    ELSE "Competitive Underdog")

\* C15 as stated: rank is the focal alternative's place by descending base score,
\* ties in row order; gapToLeader = leaderScore - focalScore, >= 0, 0 for the
\* leader; aheadOf and behind are the alternatives scoring strictly lower and
\* strictly higher; the label is "Leader" for rank 1, "Strong Challenger" for
\* rank 2, "Competitive Underdog" otherwise.
C15_PositionAsStated == PositionSummary("Leader")

\* C15, amended: the same, with the label of rank 1 being "Market Leader".
C15_PositionSummary == PositionSummary("Market Leader")

\* the focal row B ties with the leader A ahead of it: rank 2, no gap, C behind it
C15_Witness ==
    /\ results.returned
    /\ Len(data.rowLabels) = 3
    /\ results.yourProductAnalysis.yourProduct = "B"
    /\ results.baseScores[1] = results.baseScores[2]
    /\ results.yourProductAnalysis.yourRank = 2
    /\ results.yourProductAnalysis.position = "Strong Challenger"
    /\ results.yourProductAnalysis.gapToLeader = 0
    /\ results.yourProductAnalysis.aheadOf = <<"C">>
    /\ results.yourProductAnalysis.behind = <<>>

(***************************************************************************)
(* C16: for every non-empty utility score map, every market share is >= 0, *)
(* the shares sum to 100 within 0.1 times the number of alternatives, and  *)
(* an alternative with a higher utility score never has a lower share than *)
(* one with a lower score.  Shares are in tenths of a percent.             *)
(***************************************************************************)
C16_MarketShare ==
    (Past("market_share") /\ Len(base_scores) >= 1) =>
        LET n == Len(base_scores)
        IN  /\ Len(market_share) = n
            /\ \A i \in 1..n : market_share[i] >= 0
            /\ Abs(SumSeq(market_share) - 1000) <= n
            /\ \A i, j \in 1..n :
                   base_scores[i] > base_scores[j] => market_share[i] >= market_share[j]

\* scores 0.01 apart get different shares, the leader the largest one
C16_Witness ==
    /\ Past("market_share")
    /\ base_scores = <<700, 701, 1000>>
    /\ market_share = <<45, 46, 909>>

(***************************************************************************)
(* C17: in each of the three searches the weight of the perturbed          *)
(* criterion before renormalisation is                                     *)
(* clamp(baseline[criterion] + delta, 0.01, 0.50): never below 0.01 and    *)
(* never above 0.50, for every baseline weight and every delta of the      *)
(* search's grid.  Weights are in hundredths.                              *)
(***************************************************************************)
C17_WeightClamped ==
    trial.search # "none" =>
        /\ trial.new_weight =
               Max2(1, Min2(50, base_weights[trial.criterion] + trial.weight_change))
        /\ trial.new_weight >= 1
        /\ trial.new_weight <= 50

(***************************************************************************)
(* C18: the tipping-point search, the criteria-sensitivity search and the  *)
(* scenario analysis leave the baseline weight vector unchanged.  At every *)
(* point after the baseline was scored, the baseline weights are the ones  *)
(* resolved from the request, and the base scores and the leader are the   *)
(* ones derived from them; every trial perturbs a copy of that baseline:   *)
(* its weights are the baseline's except for the one criterion, whose new  *)
(* weight is computed from the baseline weight, so no trial sees the       *)
(* perturbation of an earlier one.                                         *)
(***************************************************************************)
C18_BaselineUntouched ==
    /\ Past("market_share") =>
           /\ base_weights = resolve_weights(data)
           /\ base_scores \in calculate_utility_scores(data, base_weights)
           /\ optimal_choice = Leader(data, base_scores)
    /\ trial.search # "none" =>
           LET current_weight == base_weights[trial.criterion]
           IN  /\ \A c \in SeqToSet(Criteria) \ {trial.criterion} :
                      trial.test_weights[c] = base_weights[c]
               /\ trial.test_weights[trial.criterion] = trial.new_weight
               /\ trial.total_weight =
                      total_weight(base_weights) - current_weight + trial.new_weight
               /\ trial.new_weight =
                      (IF trial.search = "tipping"
                       THEN TippingNewWeight(current_weight, trial.weight_change)
                       ELSE IF trial.search = "sensitivity"
                       THEN SensitivityNewWeight(current_weight, trial.weight_change)
                       ELSE ScenarioNewWeight(current_weight, trial.weight_change))
    /\ results.returned =>
           /\ results.baseScores = base_scores
           /\ results.optimalChoice = optimal_choice

\* the last scenario trial, after tipping points were found: the default baseline
\* is intact and the trial differs from it in the service weight only
C18_Witness ==
    /\ trial.search = "scenario"
    /\ trial.criterion = "service"
    /\ Len(tipping_points) > 0
    /\ base_weights = WeightSet(30, 25, 20, 15, 10)
    /\ trial.test_weights.service = 27
    /\ trial.test_weights.fuel = 30
    /\ trial.test_weights.price = 10
    /\ trial.total_weight = 112

(***************************************************************************)
(* C19: for any fixed base score map the value of assess_market_stability  *)
(* is non-increasing in the number of tipping points: with n the number of *)
(* tipping points of the state, every value the assessor can give for      *)
(* n + 1 tipping points is <= the stability index it gave for n.  Where    *)
(* the vulnerability factor of n + 1 is the one of n (it is floored at     *)
(* 0.1), the two computations are the same, and so are their values.       *)
(***************************************************************************)
C19_StabilityMonotone ==
    Past("stability") =>
        LET n    == Len(tipping_points)
            more == assess_market_stability(base_scores, n + 1)
        IN  /\ more # {}
            /\ IF n >= 1 /\ vulnerability_factor(n + 1) = vulnerability_factor(n)
               THEN /\ more = assess_market_stability(base_scores, n)
                    /\ stability_index \in more
               ELSE \A v \in more : v <= stability_index

\* a margin of 2.15 with three tipping points: 0.215 * 0.7 = 0.1505 gave 0.15,
\* and a fourth tipping point would bring 0.215 * 0.6 = 0.129
C19_Witness ==
    /\ Past("stability")
    /\ base_scores = <<785, 1000, 765>>
    /\ Len(tipping_points) = 3
    /\ stability_index = 150
    /\ assess_market_stability(base_scores, 4) = {129}

\* the focal label identify_strengths_and_investments is called with for request d
FocalLabel(d) == OrElse(d.yourProduct, d.rowLabels[1])

\* request d yields a record of both lists for one and the same criterion
CoOccur(d, first(_, _), second(_, _)) ==
    \E j \in 1..Len(Criteria) :
        /\ RecordsFor(first(d, FocalLabel(d)), j) # {}
        /\ RecordsFor(second(d, FocalLabel(d)), j) # {}

\* the requests looked at: the one at hand and every request of FindingsRequests
AnalysedRequests == FindingsRequests \cup {data}

(***************************************************************************)
(* C20 as stated: the investment classification may co-occur with either   *)
(* of the other two: there are inputs for which the same criterion gets    *)
(* both a strength record and an investment record, and inputs for which   *)
(* the same criterion gets both a weakness record and an investment        *)
(* record.                                                                 *)
(***************************************************************************)
C20_CoOccursWithEither ==
    /\ \E d \in AnalysedRequests : CoOccur(d, identify_strengths, identify_investments)
    /\ \E d \in AnalysedRequests : CoOccur(d, identify_weaknesses, identify_investments)

(***************************************************************************)
(* C20, amended: the investment classification may co-occur with a         *)
(* weakness but never with a strength: there are inputs for which the same *)
(* criterion gets both a weakness record and an investment record, and no  *)
(* analysis gives a criterion both a strength record and an investment     *)
(* record.                                                                 *)
(***************************************************************************)
C20_CoOccursWithWeakness ==
    /\ \E d \in AnalysedRequests : CoOccur(d, identify_weaknesses, identify_investments)
    /\ (Past("strengths") /\ WellFormed(data)) =>
           \A j \in 1..Len(Criteria) :
               ~(RecordsFor(strengths, j) # {} /\ RecordsFor(investment_areas, j) # {})

\* fuel is a weakness and an investment at once (7 against 9, no low score), and
\* service is a strength without an investment
C20_Witness ==
    /\ Past("strengths")
    /\ FocalScore(data, 1) = 7
    /\ BestCompetitor(data, 1) = 9
    /\ RecordsFor(weaknesses, 1) # {}
    /\ RecordsFor(investment_areas, 1) # {}
    /\ RecordsFor(strengths, 4) # {}
    /\ RecordsFor(investment_areas, 4) = {}
=============================================================================
